---- MODULE Spec2Model ----
(***************************************************************************)
(* Model of the `seq date` generator of nu-command                         *)
(* (crates/nu-command/src/generators/seq_date.rs): SeqDate::run resolves   *)
(* the flags, run_seq_dates reconciles (start, end, step) and walks the    *)
(* range, building one joined string that is split again on line breaks.   *)
(*                                                                         *)
(* Scaling.  chrono's calendar (NaiveDate::MIN .. NaiveDate::MAX) is the   *)
(* window MIN_DATE..MAX_DATE of consecutive days of January 2020, i64 is   *)
(* the interval I64_MIN..I64_MAX and Duration::days accepts                *)
(* -MaxDurationDays..MaxDurationDays, keeping the order                    *)
(* calendar span < Duration range < i64 range of the real types.           *)
(* Strings are sequences of one-character strings.                         *)
(***************************************************************************)
EXTENDS Integers, Sequences, FiniteSets, TLC

\* ---------------------------------------------------------------- bounds
MIN_DATE == 1
MAX_DATE == 5
TodayMin == 3
TodayMax == 4
I64_MAX == 7
MaxDurationDays == 6

I64_MIN == -I64_MAX - 1
I64 == I64_MIN..I64_MAX
CalendarDate == MIN_DATE..MAX_DATE

\* ------------------------------------------------------------ Option<T>
None == <<>>
Some(v) == <<v>>
IsSome(o) == Len(o) = 1
Unwrap(o) == o[1]

Abs(x) == IF x < 0 THEN -x ELSE x

\* ---------------------------------------------------------------- texts
Newline == <<"\n">>
Tab == <<"\t">>
CarriageReturn == <<"\r">>
EscTab == <<"\\", "t">>
EscNewline == <<"\\", "n">>
EscCarriageReturn == <<"\\", "r">>
DefaultFormat == <<"%", "Y", "-", "%", "m", "-", "%", "d">>
UsFormat == <<"%", "m", "/", "%", "d", "/", "%", "Y">>
LineFormat == <<"%", "d", "%", "n", "%", "m">>
Garbage == <<"x">>

Digit(n) == CASE n = 0 -> "0" [] n = 1 -> "1" [] n = 2 -> "2" [] n = 3 -> "3"
              [] n = 4 -> "4" [] n = 5 -> "5" [] n = 6 -> "6" [] n = 7 -> "7"
              [] n = 8 -> "8" [] n = 9 -> "9"

Pad2(n) == <<Digit((n \div 10) % 10), Digit(n % 10)>>

\* the calendar window lies inside January 2020: day number d is 2020-01-d
Year(d) == 2020
Month(d) == 1
Day(d) == d

FormatItem(d, c) ==
    CASE c = "Y" -> Pad2(Year(d) \div 100) \o Pad2(Year(d) % 100)
      [] c = "m" -> Pad2(Month(d))
      [] c = "d" -> Pad2(Day(d))
      [] c = "n" -> Newline
      [] OTHER -> <<"%", c>>

RECURSIVE FormatFrom(_, _, _)
FormatFrom(d, fmt, i) ==
    IF i > Len(fmt) THEN <<>>
    ELSE IF fmt[i] = "%" /\ i < Len(fmt)
         THEN FormatItem(d, fmt[i + 1]) \o FormatFrom(d, fmt, i + 2)
         ELSE <<fmt[i]>> \o FormatFrom(d, fmt, i + 1)

\* NaiveDate::format(fmt).to_string()
FormatDate(d, fmt) == FormatFrom(d, fmt, 1)

\* parse_date_string: Ok(date) as Some(date), Err as None
parse_date_string(s, format) ==
    IF \E d \in CalendarDate : FormatDate(d, format) = s
    THEN Some(CHOOSE d \in CalendarDate : FormatDate(d, format) = s)
    ELSE None

\* ----------------------------------------------------------- arithmetic
\* i64 negation (`step_size *= -1`, `-step_size`): panics on overflow when
\* the build has overflow checks, wraps otherwise
WrapI64(x) == ((x - I64_MIN) % (I64_MAX - I64_MIN + 1)) + I64_MIN
NegI64(x, checks) ==
    IF -x \in I64 THEN Some(-x)
    ELSE IF checks THEN None ELSE Some(WrapI64(-x))

\* Duration::days(n) panics when n is out of the Duration range
DurationDaysOk(n) == Abs(n) <= MaxDurationDays

\* NaiveDate::checked_add_signed
checked_add_signed(d, n) == IF d + n \in CalendarDate THEN Some(d + n) ELSE None

\* is_out_of_range with the end date itself counted as out of range
is_out_of_range_exclusive(step_size, end_date, next) ==
    (step_size > 0 /\ next >= end_date) \/ (step_size < 0 /\ next <= end_date)

\* the closure is_out_of_range of run_seq_dates
is_out_of_range(step_size, end_date, next) ==
    (step_size > 0 /\ next > end_date) \/ (step_size < 0 /\ next < end_date)

\* the sign inversion of run_seq_dates
NeedsInversion(start_date, end_date, step_size) ==
    (start_date > end_date /\ step_size > 0) \/ (start_date < end_date /\ step_size < 0)

\* ---------------------------------------------------------- str::lines
\* a split that takes a bare carriage return for a line break too
RECURSIVE SplitInclusiveCr(_, _, _)
SplitInclusiveCr(s, i, cur) ==
    IF i > Len(s) THEN (IF cur = <<>> THEN <<>> ELSE <<cur>>)
    ELSE IF s[i] \in {"\n", "\r"} THEN <<Append(cur, "\n")>> \o SplitInclusiveCr(s, i + 1, <<>>)
    ELSE SplitInclusiveCr(s, i + 1, Append(cur, s[i]))

\* str::split_inclusive('\n')
RECURSIVE SplitInclusive(_, _, _)
SplitInclusive(s, i, cur) ==
    IF i > Len(s) THEN (IF cur = <<>> THEN <<>> ELSE <<cur>>)
    ELSE IF s[i] = "\n" THEN <<Append(cur, s[i])>> \o SplitInclusive(s, i + 1, <<>>)
    ELSE SplitInclusive(s, i + 1, Append(cur, s[i]))

StripLine(l) ==
    IF l # <<>> /\ l[Len(l)] = "\n"
    THEN LET a == SubSeq(l, 1, Len(l) - 1)
         IN IF a # <<>> /\ a[Len(a)] = "\r" THEN SubSeq(a, 1, Len(a) - 1) ELSE a
    ELSE l

Lines(s) == LET parts == SplitInclusive(s, 1, <<>>)
            IN [i \in 1..Len(parts) |-> StripLine(parts[i])]

\* ------------------------------------------------------------- outcomes
Ok(vals) == [kind |-> "Ok", vals |-> vals]
Err(kind) == [kind |-> kind, vals |-> <<>>]
Panic == Err("panic")
ErrorKinds == {"InvalidSeparator", "InvalidIncrement", "DateParseError", "IntegerOverflow",
               "DateOutOfRange"}
Pending == Err("pending")

\* the separator match of SeqDate::run: Some(sep) or None for the error
ResolveSeparator(separator) ==
    IF IsSome(separator)
    THEN LET s == Unwrap(separator)
         IN IF s = EscTab THEN Some(Tab)
            ELSE IF s = EscNewline THEN Some(Newline)
            ELSE IF s = EscCarriageReturn THEN Some(CarriageReturn)
            ELSE IF s = <<>> THEN None
            ELSE Some(s)
    ELSE Some(Newline)

\* the increment match of SeqDate::run
ResolveIncrement(increment) == IF IsSome(increment) THEN Unwrap(increment) ELSE 1

ResolveFormat(format) == IF IsSome(format) THEN Unwrap(format) ELSE DefaultFormat

ResolveDate(date, in_format, today) ==
    IF IsSome(date) THEN parse_date_string(Unwrap(date), in_format) ELSE Some(today)

ResolveDays(day_count) == IF IsSome(day_count) THEN Unwrap(day_count) ELSE 0

\* a reverse block that negates the step and leaves the day count alone
ApplyReverseStepOnly(step_size, days_to_output, reverse, checks) ==
    IF reverse
    THEN LET s == NegI64(step_size, checks)
         IN IF IsSome(s) THEN Some(<<Unwrap(s), days_to_output>>) ELSE None
    ELSE Some(<<step_size, days_to_output>>)

\* the reverse block: <<step_size, days_to_output>> or None for a panic
ApplyReverse(step_size, days_to_output, reverse, checks) ==
    IF reverse
    THEN LET s == NegI64(step_size, checks)
             d == NegI64(days_to_output, checks)
         IN IF IsSome(s) /\ IsSome(d) THEN Some(<<Unwrap(s), Unwrap(d)>>) ELSE None
    ELSE Some(<<step_size, days_to_output>>)

\* `next += Duration::days(step_size)`: None for a panic
AdvanceNext(next, step_size) ==
    IF DurationDaysOk(step_size) THEN checked_add_signed(next, step_size) ELSE None

\* ---------------------------------------------------------------- state
VARIABLES
    separator,       \* flag --separator, Option<String>
    output_format,   \* flag --output-format
    input_format,    \* flag --input-format
    beginning_date,  \* flag --begin-date
    ending_date,     \* flag --end-date
    increment,       \* flag --increment, Option<i64>
    day_count,       \* flag --days, Option<i64>
    reverse,         \* switch --reverse
    today,           \* Local::today().naive_local()
    overflow_checks, \* whether the build panics on integer overflow
    pc,              \* position in SeqDate::run / run_seq_dates
    sep,             \* the resolved separator
    step_size, days_to_output, start_date, end_date, next, ret_str,
    emitted,         \* the dates formatted into ret_str so far
    result           \* what the call returned

params == <<separator, output_format, input_format, beginning_date, ending_date,
            increment, day_count, reverse, today, overflow_checks>>
locals == <<sep, step_size, days_to_output, start_date, end_date, next, ret_str, emitted>>
vars == <<params, pc, locals, result>>

in_format == ResolveFormat(input_format)
out_format == ResolveFormat(output_format)

\* ----------------------------------------------------------------- inputs
DateTexts(dates, formats) == {Some(FormatDate(d, f)) : d \in dates, f \in formats}
TextDates == {MIN_DATE + 1, MIN_DATE + 3}
Separators == {None, Some(EscTab), Some(EscNewline), Some(EscCarriageReturn), Some(<<>>),
               Some(<<":">>), Some(<<",", " ">>), Some(<<"\r", "\n">>), Some(<<"\n", "\n">>),
               Some(<<"\n">>)}

\* every date, increment, day count and direction, default texts
ArithInputs ==
    /\ separator = None /\ output_format = None /\ input_format = None
    /\ beginning_date \in {None} \cup DateTexts(CalendarDate, {DefaultFormat})
    /\ ending_date \in {None} \cup DateTexts(CalendarDate, {DefaultFormat})
    /\ increment \in {Some(i) : i \in I64}
    /\ day_count \in {None} \cup {Some(i) : i \in I64}
    /\ reverse \in BOOLEAN
    /\ today \in TodayMin..TodayMax
    /\ overflow_checks \in BOOLEAN

\* every separator and format, a few dates
TextInputs ==
    /\ separator \in Separators
    /\ output_format \in {None, Some(UsFormat), Some(LineFormat)}
    /\ input_format \in {None, Some(UsFormat)}
    /\ beginning_date \in {None, Some(Garbage)} \cup DateTexts(TextDates, {DefaultFormat, UsFormat})
    /\ ending_date \in {None, Some(Garbage)} \cup DateTexts(TextDates, {DefaultFormat, UsFormat})
    /\ increment \in {None, Some(0), Some(-2)}
    /\ day_count \in {None, Some(2)}
    /\ reverse \in BOOLEAN
    /\ today = TodayMin
    /\ overflow_checks = FALSE

Init ==
    /\ ArithInputs \/ TextInputs
    /\ pc = "run"
    /\ sep = <<>> /\ step_size = 0 /\ days_to_output = 0
    /\ start_date = MIN_DATE /\ end_date = MIN_DATE /\ next = MIN_DATE
    /\ ret_str = <<>> /\ emitted = <<>>
    /\ result = Pending

Return(r) == pc' = "done" /\ result' = r

\* SeqDate::run up to the call of run_seq_dates
Run ==
    /\ pc = "run"
    /\ LET s == ResolveSeparator(separator)
       IN IF IsSome(s)
          THEN /\ sep' = Unwrap(s)
               /\ step_size' = ResolveIncrement(increment)
               /\ pc' = "check_increment"
               /\ UNCHANGED result
          ELSE /\ Return(Err("InvalidSeparator"))
               /\ UNCHANGED <<sep, step_size>>
    /\ UNCHANGED <<params, days_to_output, start_date, end_date, next, ret_str, emitted>>

\* the zero check placed below the parsing of the dates
CheckIncrementLate ==
    /\ pc = "check_increment"
    /\ IF ~(IsSome(ResolveDate(beginning_date, in_format, today))
            /\ IsSome(ResolveDate(ending_date, in_format, today)))
       THEN Return(Err("DateParseError"))
       ELSE IF step_size = 0
       THEN Return(Err("InvalidIncrement"))
       ELSE pc' = "parse" /\ UNCHANGED result
    /\ UNCHANGED <<params, locals>>

\* run_seq_dates: `if step_size == 0`
CheckIncrement ==
    /\ pc = "check_increment"
    /\ IF step_size = 0
       THEN Return(Err("InvalidIncrement"))
       ELSE pc' = "parse" /\ UNCHANGED result
    /\ UNCHANGED <<params, locals>>

\* run_seq_dates: in_format, out_format, start_date, end_date, days_to_output
ParseDates ==
    /\ pc = "parse"
    /\ LET b == ResolveDate(beginning_date, in_format, today)
           e == ResolveDate(ending_date, in_format, today)
       IN IF IsSome(b) /\ IsSome(e)
          THEN /\ start_date' = Unwrap(b)
               /\ end_date' = Unwrap(e)
               /\ days_to_output' = ResolveDays(day_count)
               /\ pc' = "reverse"
               /\ UNCHANGED result
          ELSE /\ Return(Err("DateParseError"))
               /\ UNCHANGED <<start_date, end_date, days_to_output>>
    /\ UNCHANGED <<params, sep, step_size, next, ret_str, emitted>>

\* run_seq_dates: `if reverse`
Reverse ==
    /\ pc = "reverse"
    /\ LET r == ApplyReverse(step_size, days_to_output, reverse, overflow_checks)
       IN IF IsSome(r)
          THEN /\ step_size' = Unwrap(r)[1]
               /\ days_to_output' = Unwrap(r)[2]
               /\ pc' = "derive_end"
               /\ UNCHANGED result
          ELSE /\ Return(Panic)
               /\ UNCHANGED <<step_size, days_to_output>>
    /\ UNCHANGED <<params, sep, start_date, end_date, next, ret_str, emitted>>

\* the end date of run_seq_dates after `if days_to_output != 0`:
\* Some(Some(date)), Some(None) for the overflow error, None for a panic
DerivedEnd(start, end, days) ==
    IF days # 0
    THEN IF DurationDaysOk(days) THEN Some(checked_add_signed(start, days)) ELSE None
    ELSE Some(Some(end))

\* run_seq_dates: `if days_to_output != 0`
DeriveEnd ==
    /\ pc = "derive_end"
    /\ LET e == DerivedEnd(start_date, end_date, days_to_output)
       IN IF ~IsSome(e) THEN Return(Panic) /\ UNCHANGED end_date
          ELSE IF ~IsSome(Unwrap(e)) THEN Return(Err("IntegerOverflow")) /\ UNCHANGED end_date
          ELSE /\ end_date' = Unwrap(Unwrap(e))
               /\ pc' = "sign"
               /\ UNCHANGED result
    /\ UNCHANGED <<params, sep, step_size, days_to_output, start_date, next, ret_str, emitted>>

\* the step after the sign inversion: None for a panic
CorrectedStep(start, end, step, checks) ==
    IF NeedsInversion(start, end, step) THEN NegI64(step, checks) ELSE Some(step)

\* run_seq_dates: the sign inversion
SignCorrection ==
    /\ pc = "sign"
    /\ LET s == CorrectedStep(start_date, end_date, step_size, overflow_checks)
       IN IF IsSome(s)
          THEN step_size' = Unwrap(s) /\ pc' = "precheck" /\ UNCHANGED result
          ELSE Return(Panic) /\ UNCHANGED step_size
    /\ UNCHANGED <<params, sep, days_to_output, start_date, end_date, next, ret_str, emitted>>

\* the loop entered without the out-of-range check of start
PreCheckSkipped ==
    /\ pc = "precheck"
    /\ next' = start_date
    /\ pc' = "loop"
    /\ UNCHANGED <<params, sep, step_size, days_to_output, start_date, end_date, ret_str,
                   emitted, result>>

\* run_seq_dates: `let mut next = start_date; if is_out_of_range(next)`
PreCheck ==
    /\ pc = "precheck"
    /\ next' = start_date
    /\ IF is_out_of_range(step_size, end_date, start_date)
       THEN Return(Err("DateOutOfRange"))
       ELSE pc' = "loop" /\ UNCHANGED result
    /\ UNCHANGED <<params, sep, step_size, days_to_output, start_date, end_date, ret_str, emitted>>

\* run_seq_dates: one iteration of the loop
LoopStep ==
    /\ pc = "loop"
    /\ emitted' = Append(emitted, next)
    /\ LET pushed == ret_str \o FormatDate(next, out_format)
           n == AdvanceNext(next, step_size)
       IN IF ~IsSome(n)
          THEN /\ Return(Panic)
               /\ ret_str' = pushed
               /\ UNCHANGED next
          ELSE /\ next' = Unwrap(n)
               /\ UNCHANGED result
               /\ IF is_out_of_range(step_size, end_date, Unwrap(n))
                  THEN pc' = "rows" /\ ret_str' = pushed
                  ELSE pc' = "loop" /\ ret_str' = pushed \o sep
    /\ UNCHANGED <<params, sep, step_size, days_to_output, start_date, end_date>>

\* run_seq_dates: ret_str.lines() collected into the returned list
CollectRows ==
    /\ pc = "rows"
    /\ Return(Ok(Lines(ret_str)))
    /\ UNCHANGED <<params, locals>>

Next ==
    \/ Run
    \/ CheckIncrement
    \/ ParseDates
    \/ Reverse
    \/ DeriveEnd
    \/ SignCorrection
    \/ PreCheck
    \/ LoopStep
    \/ CollectRows

Spec == Init /\ [][Next]_vars

TypeOK ==
    /\ pc \in {"run", "check_increment", "parse", "reverse", "derive_end", "sign",
               "precheck", "loop", "rows", "done"}
    /\ step_size \in I64 /\ days_to_output \in I64
    /\ start_date \in CalendarDate /\ end_date \in CalendarDate /\ next \in CalendarDate
    /\ result.kind \in {"pending", "Ok", "panic", "InvalidSeparator", "InvalidIncrement",
                        "DateParseError", "IntegerOverflow", "DateOutOfRange"}

\* ------------------------------------------------ the call as a function
\* the dates the loop of run_seq_dates formats, None when the advance panics
RECURSIVE Walk(_, _, _, _)
Walk(nxt, end, step, acc) ==
    LET n == AdvanceNext(nxt, step)
    IN IF ~IsSome(n) THEN None
       ELSE IF is_out_of_range(step, end, Unwrap(n)) THEN Some(Append(acc, nxt))
       ELSE Walk(Unwrap(n), end, step, Append(acc, nxt))

\* ret_str for the dates the loop formats
RECURSIVE Join(_, _, _)
Join(dates, fmt, s) ==
    IF dates = <<>> THEN <<>>
    ELSE IF Len(dates) = 1 THEN FormatDate(dates[1], fmt)
    ELSE FormatDate(dates[1], fmt) \o s \o Join(Tail(dates), fmt, s)

\* run_seq_dates from the sign inversion on
EmitRange(s, ofmt, start, end, step, checks) ==
    LET c == CorrectedStep(start, end, step, checks)
    IN IF ~IsSome(c) THEN Panic
       ELSE IF is_out_of_range(Unwrap(c), end, start) THEN Err("DateOutOfRange")
       ELSE LET w == Walk(start, end, Unwrap(c), <<>>)
            IN IF ~IsSome(w) THEN Panic
               ELSE Ok(Lines(Join(Unwrap(w), ofmt, s)))

\* run_seq_dates
run_seq_dates(s, ofmt, ifmt, bdate, edate, inc, days, rev, tdy, checks) ==
    IF inc = 0 THEN Err("InvalidIncrement")
    ELSE LET b == ResolveDate(bdate, ResolveFormat(ifmt), tdy)
             e == ResolveDate(edate, ResolveFormat(ifmt), tdy)
         IN IF ~(IsSome(b) /\ IsSome(e)) THEN Err("DateParseError")
            ELSE LET r == ApplyReverse(inc, ResolveDays(days), rev, checks)
                 IN IF ~IsSome(r) THEN Panic
                    ELSE LET d == DerivedEnd(Unwrap(b), Unwrap(e), Unwrap(r)[2])
                         IN IF ~IsSome(d) THEN Panic
                            ELSE IF ~IsSome(Unwrap(d)) THEN Err("IntegerOverflow")
                            ELSE EmitRange(s, ResolveFormat(ofmt), Unwrap(b),
                                           Unwrap(Unwrap(d)), Unwrap(r)[1], checks)

\* SeqDate::run
SeqDateRun(sflag, ofmt, ifmt, bdate, edate, inc, days, rev, tdy, checks) ==
    LET s == ResolveSeparator(sflag)
    IN IF ~IsSome(s) THEN Err("InvalidSeparator")
       ELSE run_seq_dates(Unwrap(s), ofmt, ifmt, bdate, edate, ResolveIncrement(inc),
                          days, rev, tdy, checks)

\* ------------------------------------------------------------ properties
\* the flags as run_seq_dates reads them
DefaultTexts == separator = None /\ output_format = None /\ input_format = None
DatesParse == /\ IsSome(ResolveDate(beginning_date, in_format, today))
              /\ IsSome(ResolveDate(ending_date, in_format, today))
StartGiven == Unwrap(ResolveDate(beginning_date, in_format, today))
EndGiven == Unwrap(ResolveDate(ending_date, in_format, today))
IncGiven == ResolveIncrement(increment)
DaysGiven == ResolveDays(day_count)
Succeeded == pc = "done" /\ result.kind = "Ok"
HasNewline(s) == \E i \in 1..Len(s) : s[i] = "\n"

\* C1: with no day count, the default separator and formats and an end
\* reachable from start in whole steps, the call succeeds and returns
\* floor(|end - start| / |increment|) + 1 dates (stated for the non-zero
\* increments that Duration::days accepts).
C1_ReachableCount ==
    (/\ pc = "done" /\ DefaultTexts /\ DatesParse
     /\ DaysGiven = 0 /\ IncGiven # 0 /\ DurationDaysOk(IncGiven)
     /\ Abs(EndGiven - StartGiven) % Abs(IncGiven) = 0)
    => /\ result.kind = "Ok"
       /\ Len(result.vals) = (Abs(EndGiven - StartGiven) \div Abs(IncGiven)) + 1

\* C2: with a day count n > 0, increment 1 and no begin or end date the call
\* returns exactly the n dates today, today+1, ..., today+(n-1), or
\* today, today-1, ..., today-(n-1) with reverse.
C2_DayCountDates ==
    (/\ pc = "done" /\ DefaultTexts
     /\ beginning_date = None /\ ending_date = None
     /\ IncGiven = 1 /\ DaysGiven > 0
     /\ (IF reverse THEN today - (DaysGiven - 1) ELSE today + (DaysGiven - 1)) \in CalendarDate)
    => result = Ok([i \in 1..DaysGiven |->
                     FormatDate(IF reverse THEN today - (i - 1) ELSE today + (i - 1),
                                DefaultFormat)])

\* C3 as stated: a zero increment fails with InvalidIncrement whatever the
\* other parameters are, an empty separator included.
C3_ZeroIncrementAlways ==
    (pc = "done" /\ IncGiven = 0) => result = Err("InvalidIncrement")

\* C3 amended: a zero increment fails with InvalidIncrement whatever the
\* other parameters are, provided the separator is not the empty string
\* (which SeqDate::run rejects first).
C3_ZeroIncrement ==
    (pc = "done" /\ IncGiven = 0 /\ separator # Some(<<>>)) => result = Err("InvalidIncrement")

C3_Witness ==
    /\ pc = "done" /\ increment = Some(0) /\ beginning_date = Some(Garbage)
    /\ separator = Some(<<":">>) /\ output_format = Some(UsFormat) /\ IsSome(day_count)
    /\ result = Err("InvalidIncrement")

\* C4: the outcome with reverse = true is the outcome with reverse = false
\* for the negated increment and the negated day count: the same values or
\* the same error.
C4_ReverseIsNegation ==
    (/\ pc = "done" /\ reverse
     /\ -IncGiven \in I64 /\ -DaysGiven \in I64)
    => result = SeqDateRun(separator, output_format, input_format, beginning_date,
                           ending_date, Some(-IncGiven), Some(-DaysGiven), FALSE,
                           today, overflow_checks)

C4_Witness ==
    /\ Succeeded /\ reverse /\ DaysGiven > 0 /\ Len(emitted) >= 2
    /\ emitted[2] < emitted[1]

\* C5 as stated: the step the emitter uses is positive when end >= start
\* (end = start included) and negative when end < start.
C5_SignConsistent ==
    pc \in {"loop", "rows"} =>
        /\ (end_date >= start_date => step_size > 0)
        /\ (end_date < start_date => step_size < 0)

\* C5 amended: the step the emitter uses is positive when end > start and
\* negative when end < start; when end = start it is non-zero of either
\* sign.
C5_SignConsistentStrict ==
    pc \in {"loop", "rows"} =>
        /\ (end_date > start_date => step_size > 0)
        /\ (end_date < start_date => step_size < 0)
        /\ (end_date = start_date => step_size # 0)

C5_Witness ==
    /\ pc = "loop" /\ ~reverse /\ IncGiven < 0
    /\ end_date > start_date /\ step_size = -IncGiven

\* C6: for start > end and a positive increment k, without reverse or day
\* count, the call succeeds and returns start, start-k, start-2k, ... down
\* to end.
C6_DescendingRange ==
    (/\ pc = "done" /\ DefaultTexts /\ DatesParse
     /\ ~reverse /\ DaysGiven = 0 /\ IncGiven > 0
     /\ StartGiven > EndGiven)
    => result = Ok([i \in 1..(((StartGiven - EndGiven) \div IncGiven) + 1) |->
                     FormatDate(StartGiven - (i - 1) * IncGiven, DefaultFormat)])

\* C7: in a successful run the first emitted date is start, each next one
\* is the previous plus the step, every one lies between start and end,
\* and the last one is end exactly when |end - start| is a whole multiple
\* of |step|; ret_str is these dates joined by the separator.
C7_NeverOvershoots ==
    Succeeded =>
        /\ Len(emitted) >= 1
        /\ emitted[1] = start_date
        /\ \A i \in 1..(Len(emitted) - 1) : emitted[i + 1] = emitted[i] + step_size
        /\ \A i \in 1..Len(emitted) :
               \/ (start_date <= emitted[i] /\ emitted[i] <= end_date)
               \/ (end_date <= emitted[i] /\ emitted[i] <= start_date)
        /\ (emitted[Len(emitted)] = end_date)
               <=> (Abs(end_date - start_date) % Abs(step_size) = 0)
        /\ ret_str = Join(emitted, out_format, sep)

C7_Witness ==
    /\ Succeeded /\ Len(emitted) >= 2
    /\ emitted[Len(emitted)] # end_date
    /\ Abs(end_date - emitted[Len(emitted)]) < Abs(step_size)

\* C8: the two steps that add days to a date, the derivation of end from
\* the day count and the advance of next in the loop, produce a date of the
\* calendar or return an error, and never panic (stated for the steps and
\* day counts that Duration::days accepts).
C8_CheckedDateAddition ==
    [][(/\ pc \in {"derive_end", "loop"}
        /\ DurationDaysOk(step_size) /\ DurationDaysOk(days_to_output))
       => result'.kind \in ErrorKinds \cup {"Ok", "pending"}]_vars

C10_OutOfRangeUnreachable ==
    /\ pc = "precheck" => ~is_out_of_range(step_size, end_date, start_date)
    /\ result.kind # "DateOutOfRange"

\* C11: with no day count the result depends only on the magnitude of the
\* increment: the call returns the same outcome for increment k and -k and
\* for reverse true and false (stated for the non-zero increments that
\* Duration::days accepts).
C11_MagnitudeOnly ==
    (/\ pc = "done" /\ DaysGiven = 0
     /\ IncGiven # 0 /\ DurationDaysOk(IncGiven))
    => /\ result = SeqDateRun(separator, output_format, input_format, beginning_date,
                              ending_date, Some(-IncGiven), day_count, reverse,
                              today, overflow_checks)
       /\ result = SeqDateRun(separator, output_format, input_format, beginning_date,
                              ending_date, increment, day_count, ~reverse,
                              today, overflow_checks)

====
